---- MODULE Spec2Model ----
(***************************************************************************)
(* A model of bot.py: the result decoders (Wordle, Connections, Strands,   *)
(* Globle), the message handler on_message that classifies a message and   *)
(* writes the score table daily_scores, load_scores / save_scores, and the *)
(* two reports build_leaderboard_text and stats.                           *)
(*                                                                         *)
(* A text is a sequence of characters, each character a string.  Emoji are *)
(* written by name (SqPurple for the purple square, ...).  A Python dict   *)
(* is a sequence of <<key, value>> pairs in insertion order, because the   *)
(* code iterates dicts and sorts their items with a stable sort.           *)
(***************************************************************************)
EXTENDS Integers, Sequences, FiniteSets, TLC

VARIABLES
    daily_scores,   \* the module-level table: game -> date -> player -> record
    file,           \* scores.json: what is on disk
    today,          \* the day index of date.today()
    updated,        \* on_message's local `updated` when the last handler ended
    escaped,        \* the last handler ended by an exception leaving it
    processed,      \* the last handler reached bot.process_commands
    sent,           \* the text the last handler or job sent to the channel
    content,        \* the text handed to a decoder or loader run on its own
    result          \* what that run returned

vars == <<daily_scores, file, today, updated, escaped, processed, sent, content, result>>

\* ------------------------------------------------------------------ characters

SqYellow == "sqY"
SqGreen == "sqG"
SqBlue == "sqB"
SqPurple == "sqP"
DotBlue == "dot"
Bulb == "bulb"
DotYellow == "span"
GlobeAmericas == "globeAm"
GlobeEurope == "globeEu"
GlobeAsia == "globeAs"

NL == "\n"
SP == " "

Whitespace == {SP, NL, "\t"}

Digits == <<"0", "1", "2", "3", "4", "5", "6", "7", "8", "9">>

UpperCase == <<"A", "B", "C", "D", "E", "F", "G", "H", "I", "J", "K", "L", "M",
               "N", "O", "P", "Q", "R", "S", "T", "U", "V", "W", "X", "Y", "Z">>

LowerCase == <<"a", "b", "c", "d", "e", "f", "g", "h", "i", "j", "k", "l", "m",
               "n", "o", "p", "q", "r", "s", "t", "u", "v", "w", "x", "y", "z">>

Range(s) == {s[i] : i \in DOMAIN s}

\* The position of c in the sequence s, 0 when it is not there.
IndexOf(s, c) == IF c \in Range(s) THEN CHOOSE i \in DOMAIN s : s[i] = c /\ \A j \in 1..(i - 1) : s[j] # c
                 ELSE 0

\* ------------------------------------------------------------------ str methods

\* str.lower
Lower(s) == [i \in DOMAIN s |-> IF s[i] \in Range(UpperCase) THEN LowerCase[IndexOf(UpperCase, s[i])] ELSE s[i]]

\* str.startswith
StartsWith(s, prefix) == Len(s) >= Len(prefix) /\ SubSeq(s, 1, Len(prefix)) = prefix

\* str.strip
Strip(s) ==
    LET keep == {i \in DOMAIN s : s[i] \notin Whitespace}
    IN IF keep = {} THEN <<>>
       ELSE SubSeq(s, CHOOSE i \in keep : \A j \in keep : i <= j,
                      CHOOSE i \in keep : \A j \in keep : i >= j)

\* str.splitlines: the pieces between line breaks, no empty piece after a final break
RECURSIVE SplitLines(_)
SplitLines(s) ==
    IF s = <<>> THEN <<>>
    ELSE LET brk == IndexOf(s, NL)
         IN IF brk = 0 THEN <<s>>
            ELSE <<SubSeq(s, 1, brk - 1)>> \o SplitLines(SubSeq(s, brk + 1, Len(s)))

\* str.split(): the maximal runs of non-whitespace characters
RECURSIVE Split(_)
Split(s) ==
    LET t == Strip(s)
    IN IF t = <<>> THEN <<>>
       ELSE LET ws == {i \in DOMAIN t : t[i] \in Whitespace}
                cut == IF ws = {} THEN Len(t) + 1 ELSE CHOOSE i \in ws : \A j \in ws : i <= j
            IN <<SubSeq(t, 1, cut - 1)>> \o Split(SubSeq(t, cut, Len(t)))

\* str.split("/")[0]
BeforeSlash(s) ==
    LET cut == IndexOf(s, "/")
    IN IF cut = 0 THEN s ELSE SubSeq(s, 1, cut - 1)

\* str.count
Count(s, c) == Cardinality({i \in DOMAIN s : s[i] = c})

\* "".join
RECURSIVE Join(_)
Join(ls) == IF ls = <<>> THEN <<>> ELSE Head(ls) \o Join(Tail(ls))

\* The value of a run of decimal digits.
RECURSIVE DigitsValue(_)
DigitsValue(s) ==
    IF s = <<>> THEN 0
    ELSE 10 * DigitsValue(SubSeq(s, 1, Len(s) - 1)) + (IndexOf(Digits, s[Len(s)]) - 1)

IsDigits(s) == s # <<>> /\ \A i \in DOMAIN s : s[i] \in Range(Digits)

\* int(): an optional sign and digits; anything else raises ValueError
ParseInt(s) ==
    LET body == IF s # <<>> /\ s[1] \in {"+", "-"} THEN Tail(s) ELSE s
    IN IF ~IsDigits(body) THEN [ok |-> FALSE, value |-> 0]
       ELSE [ok |-> TRUE,
             value |-> IF s[1] = "-" THEN 0 - DigitsValue(body) ELSE DigitsValue(body)]

\* re.match(r"^[...]+$", l.strip()): the stripped line is one or more symbols of the palette
IsGridLine(l, palette) == Strip(l) # <<>> /\ \A i \in DOMAIN Strip(l) : Strip(l)[i] \in palette

\* [l for l in lines if re.match(...)]
GridLines(lines, palette) == SelectSeq(lines, LAMBDA l : IsGridLine(l, palette))

\* ------------------------------------------------------------------ dicts

\* A dict is a sequence of <<key, value>> pairs in insertion order.
Keys(od) == [i \in DOMAIN od |-> od[i][1]]

\* key in dict
Has(od, k) == \E i \in DOMAIN od : od[i][1] = k

\* dict[key]
Get(od, k) == od[CHOOSE i \in DOMAIN od : od[i][1] = k][2]

\* dict.get(key, default)
GetOr(od, k, default) == IF Has(od, k) THEN Get(od, k) ELSE default

\* Put with the bug of filing every write as a new pair.
Put_AlwaysAppends(od, k, v) == Append(od, <<k, v>>)

\* dict[key] = value: a present key keeps its place, a new key goes last
Put(od, k, v) ==
    IF Has(od, k) THEN [i \in DOMAIN od |-> IF od[i][1] = k THEN <<k, v>> ELSE od[i]]
    ELSE Append(od, <<k, v>>)

\* ------------------------------------------------------------------ decoders

ConnectionsPalette == {SqYellow, SqGreen, SqBlue, SqPurple}

StrandsPalette == {DotBlue, Bulb, DotYellow}

Globes == {GlobeAmericas, GlobeEurope, GlobeAsia}

\* base_points with the table of purple reversed.
base_points_PurpleReversed ==
    (SqPurple :> <<1, 2, 3, 5>>) @@ (SqBlue :> <<3, 2, 1, 0>>) @@
    (SqGreen :> <<2, 1, 0, 0>>) @@ (SqYellow :> <<0, 0, 0, 0>>)

\* base_points: the points of a color by the position at which it was solved
base_points ==
    (SqPurple :> <<5, 3, 2, 1>>) @@ (SqBlue :> <<3, 2, 1, 0>>) @@
    (SqGreen :> <<2, 1, 0, 0>>) @@ (SqYellow :> <<0, 0, 0, 0>>)

\* The loop building color_order: the first character of each grid line, first occurrences only.
RECURSIVE ColorOrder(_, _)
ColorOrder(grid_lines, seen) ==
    IF grid_lines = <<>> THEN seen
    ELSE LET color == Head(grid_lines)[1]
         IN ColorOrder(Tail(grid_lines),
                       IF color \in Range(seen) THEN seen ELSE Append(seen, color))

\* The loop summing points over enumerate(color_order); idx is 0-based in the code.
RECURSIVE SumPoints(_, _)
SumPoints(color_order, pos) ==
    IF pos > Len(color_order) THEN 0
    ELSE (IF color_order[pos] \in DOMAIN base_points /\ pos - 1 < Len(base_points[color_order[pos]])
          THEN base_points[color_order[pos]][pos]
          ELSE 0) + SumPoints(color_order, pos + 1)

Plural(n) == IF n # 1 THEN "s" ELSE ""

ConnectionsSummary(mistakes, color_order) ==
    IF mistakes = 0
    THEN IF color_order # <<>> /\ color_order[1] = SqPurple THEN <<"No mistakes! Solved purple first">>
         ELSE IF color_order # <<>> /\ color_order[1] = SqBlue THEN <<"No mistakes! Solved blue first">>
         ELSE <<"No mistake!">>
    ELSE <<ToString(mistakes) \o " mistake" \o Plural(mistakes)>>

parse_connections_result(text) ==
    LET grid_lines == GridLines(SplitLines(text), ConnectionsPalette)
        mistakes == IF Len(grid_lines) - 4 > 0 THEN Len(grid_lines) - 4 ELSE 0
        color_order == ColorOrder(grid_lines, <<>>)
    IN [mistakes |-> mistakes,
        points |-> SumPoints(color_order, 1),
        summary |-> ConnectionsSummary(mistakes, color_order)]

\* SpangramBonus with the bug of comparing with <= for <.
SpangramBonus_Inclusive(first_pos, total_len) ==
    IF 3 * first_pos <= total_len THEN 3
    ELSE IF 3 * first_pos <= 2 * total_len THEN 1
    ELSE 0

\* The positional bonus: first_pos < total_len / 3 gives 3, first_pos < 2 * total_len / 3
\* gives 1 (true division; for integers the same as comparing 3 * first_pos).
SpangramBonus(first_pos, total_len) ==
    IF 3 * first_pos < total_len THEN 3
    ELSE IF 3 * first_pos < 2 * total_len THEN 1
    ELSE 0

SpangramBand(first_pos, total_len) ==
    IF 3 * first_pos < total_len THEN ", spangram early"
    ELSE IF 3 * first_pos < 2 * total_len THEN ", spangram mid"
    ELSE ", spangram late"

parse_strands_result(text) ==
    LET grid_lines == GridLines(SplitLines(text), StrandsPalette)
        sequence == Join(grid_lines)
        correct_count == Count(sequence, DotBlue)
        hints == Count(sequence, Bulb)
        spangram_positions == {i - 1 : i \in {j \in DOMAIN sequence : sequence[j] = DotYellow}}
        first_pos == CHOOSE p \in spangram_positions : \A q \in spangram_positions : p <= q
        base == correct_count + (Cardinality(spangram_positions) * 5) - (hints * 2)
        head == ToString(correct_count) \o " correct, " \o ToString(hints) \o " hint" \o Plural(hints)
    IN IF grid_lines = <<>> THEN [score |-> 0, summary |-> <<"No recognizable Strands result.">>]
       ELSE IF spangram_positions = {} THEN [score |-> base, summary |-> <<head>>]
       ELSE [score |-> base + SpangramBonus(first_pos, Len(sequence)),
             summary |-> <<head, SpangramBand(first_pos, Len(sequence))>>]

\* re.search(r"SqGreen\s*=\s*(\d+)", line) tried at position i: the digits it captures, <<>> when
\* it does not match there.
RECURSIVE SkipSpaces(_, _)
SkipSpaces(line, i) == IF i <= Len(line) /\ line[i] \in Whitespace THEN SkipSpaces(line, i + 1) ELSE i

RECURSIVE DigitRun(_, _)
DigitRun(line, i) ==
    IF i <= Len(line) /\ line[i] \in Range(Digits) THEN <<line[i]>> \o DigitRun(line, i + 1) ELSE <<>>

GuessMatchAt(line, i) ==
    LET eq == SkipSpaces(line, i + 1)
    IN IF line[i] = SqGreen /\ eq <= Len(line) /\ line[eq] = "="
       THEN DigitRun(line, SkipSpaces(line, eq + 1))
       ELSE <<>>

GlobleSummary(guesses) ==
    IF guesses <= 2 THEN <<ToString(guesses) \o " guesses, AMAZING">>
    ELSE IF guesses <= 4 THEN <<ToString(guesses) \o " guesses, great job!">>
    ELSE IF guesses <= 6 THEN <<ToString(guesses) \o " guesses, nice!">>
    ELSE <<ToString(guesses) \o " guesses">>

\* none stands for the code's guesses = None.
parse_globle_result(text) ==
    LET lines == SplitLines(text)
        with == {i \in DOMAIN lines : SqGreen \in Range(lines[i])}
        guess_line == lines[CHOOSE i \in with : \A j \in with : i <= j]
        hits == {i \in DOMAIN guess_line : GuessMatchAt(guess_line, i) # <<>>}
        digits == GuessMatchAt(guess_line, CHOOSE i \in hits : \A j \in hits : i <= j)
    IN IF with = {} THEN [none |-> TRUE, guesses |-> 0, summary |-> <<"No recognizable Globle result.">>]
       ELSE IF hits = {} THEN [none |-> TRUE, guesses |-> 0, summary |-> <<"Could not find number of guesses.">>]
       ELSE [none |-> FALSE, guesses |-> DigitsValue(digits), summary |-> GlobleSummary(DigitsValue(digits))]

\* The labels the pasted results begin with.
WordleLabel == <<"W", "o", "r", "d", "l", "e">>
ConnectionsLabel == <<"C", "o", "n", "n", "e", "c", "t", "i", "o", "n", "s">>
StrandsLabel == <<"S", "t", "r", "a", "n", "d", "s">>

\* ------------------------------------------------------------------ the score table

Games == <<"wordle", "connections", "strands", "globle">>

\* The dict load_scores returns for a missing or undecodable file (and the one of line 30).
EmptyStore == [i \in DOMAIN Games |-> <<Games[i], <<>>>>]

\* date.isoformat() of day d of the month
IsoFormat(d) == "2025-11-" \o (IF d < 10 THEN "0" ELSE "") \o ToString(d)

\* daily_scores[game].setdefault(day, {})[username] = record
Write(store, game, day, username, record) ==
    Put(store, game, Put(Get(store, game), day, Put(GetOr(Get(store, game), day, <<>>), username, record)))

\* scores.json: missing, unreadable (open raises OSError), invalid (not JSON), or a JSON
\* document.  A document of nested objects with string keys and number or string leaves is
\* held as the nested dict json.load makes of it.
NoFile == [kind |-> "missing", value |-> <<>>]
UnreadableFile == [kind |-> "unreadable", value |-> <<>>]
InvalidFile == [kind |-> "invalid", value |-> <<>>]
JsonFile(doc) == [kind |-> "json", value |-> doc]

\* load_scores: FileNotFoundError and JSONDecodeError give the empty table, any other
\* exception leaves the function, a document is returned as it is.
load_scores(f) ==
    IF f.kind \in {"missing", "invalid"} THEN [raised |-> FALSE, value |-> EmptyStore]
    ELSE IF f.kind = "unreadable" THEN [raised |-> TRUE, value |-> <<>>]
    ELSE [raised |-> FALSE, value |-> f.value]

\* save_scores under the outcome io: the table is written; open() raises and the file stays
\* as it was; or the write fails after open() truncated the file.  raised: the exception
\* leaves save_scores.
save_scores(store, f, io) ==
    IF io = "ok" THEN [raised |-> FALSE, file |-> JsonFile(store)]
    ELSE IF io = "open_fails" THEN [raised |-> TRUE, file |-> f]
    ELSE [raised |-> TRUE, file |-> InvalidFile]

SaveOutcomes == {"ok", "open_fails", "write_fails"}

\* ------------------------------------------------------------------ on_message

BotUser == "bot"

NoWrite == [write |-> FALSE, game |-> "", record |-> 0]

\* The if / elif chain of on_message on the stripped text: which game's branch runs and the
\* record it writes.  An exception inside a branch is caught there and nothing is written.
WordleBranch(c) ==
    LET parts == Split(SplitLines(c)[1])
    IN IF Len(parts) >= 3 /\ "/" \in Range(parts[3])
       THEN LET score == ParseInt(BeforeSlash(parts[3]))
            IN IF score.ok THEN [write |-> TRUE, game |-> "wordle", record |-> score.value]
               ELSE NoWrite
       ELSE NoWrite

ConnectionsBranch(c) == [write |-> TRUE, game |-> "connections", record |-> parse_connections_result(c)]

StrandsBranch(c) == [write |-> TRUE, game |-> "strands", record |-> parse_strands_result(c)]

GlobleBranch(c) ==
    LET r == parse_globle_result(c)
    IN IF ~r.none THEN [write |-> TRUE, game |-> "globle",
                        record |-> [guesses |-> r.guesses, summary |-> r.summary]]
       ELSE NoWrite

Classify(c) ==
    IF StartsWith(c, WordleLabel) THEN WordleBranch(c)
    ELSE IF StartsWith(Lower(c), Lower(ConnectionsLabel)) THEN ConnectionsBranch(c)
    ELSE IF StartsWith(Lower(c), Lower(StrandsLabel)) THEN StrandsBranch(c)
    ELSE IF Range(c) \cap Globes # {} THEN GlobleBranch(c)
    ELSE NoWrite

\* ------------------------------------------------------------------ the reports

\* One line of a report.  marked: the line begins with a symbol drawn by random.choice from
\* celebratory_emojis (which of the nine is not kept).
Line(kind, game, day, pos, name, detail) ==
    [kind |-> kind, game |-> game, day |-> day, pos |-> pos, marked |-> (kind = "row" /\ pos = 1),
     name |-> name, detail |-> detail]

\* KeyLess with the bug of ranking Strands by ascending score.
KeyLess_StrandsAscending(game, a, b) ==
    IF game = "wordle" THEN a[2] < b[2]
    ELSE IF game = "connections"
         THEN \/ a[2].mistakes < b[2].mistakes
              \/ a[2].mistakes = b[2].mistakes /\ 0 - a[2].points < 0 - b[2].points
    ELSE IF game = "strands" THEN a[2].score < b[2].score
    ELSE a[2].guesses < b[2].guesses

\* The sort keys of build_leaderboard_text: whether item a sorts strictly before item b.
KeyLess(game, a, b) ==
    IF game = "wordle" THEN a[2] < b[2]
    ELSE IF game = "connections"
         THEN \/ a[2].mistakes < b[2].mistakes
              \/ a[2].mistakes = b[2].mistakes /\ 0 - a[2].points < 0 - b[2].points
    ELSE IF game = "strands" THEN 0 - a[2].score < 0 - b[2].score
    ELSE a[2].guesses < b[2].guesses

\* InsertSorted with the bug of an unstable sort: an item goes before the items it ties with.
InsertSorted_BeforeTies(game, done, x) ==
    LET after == {i \in DOMAIN done : ~KeyLess(game, done[i], x)}
        at == IF after = {} THEN Len(done) + 1 ELSE CHOOSE i \in after : \A j \in after : i <= j
    IN SubSeq(done, 1, at - 1) \o <<x>> \o SubSeq(done, at, Len(done))

\* sorted(items, key=...): stable, an item goes before the first one it is strictly less than
InsertSorted(game, done, x) ==
    LET after == {i \in DOMAIN done : KeyLess(game, x, done[i])}
        at == IF after = {} THEN Len(done) + 1 ELSE CHOOSE i \in after : \A j \in after : i <= j
    IN SubSeq(done, 1, at - 1) \o <<x>> \o SubSeq(done, at, Len(done))

RECURSIVE SortItems(_, _, _)
SortItems(game, items, done) ==
    IF items = <<>> THEN done
    ELSE SortItems(game, Tail(items), InsertSorted(game, done, Head(items)))

Sorted(game, items) == SortItems(game, items, <<>>)

\* What a row shows after the name.
RowDetail(game, record) ==
    IF game = "wordle"
    THEN <<ToString(record) \o "/6"
            \o (IF record <= 2 THEN ", AMAZING!" ELSE IF record <= 3 THEN ", nice job!" ELSE "")>>
    ELSE IF game = "strands" THEN record.summary \o <<" (+" \o ToString(record.score) \o " pts)">>
    ELSE record.summary

\* One game's section: its header and ranked rows, or its "No ... scores today." line.
Section(store, game, day) ==
    LET data == GetOr(Get(store, game), day, <<>>)
        ranked == Sorted(game, data)
    IN IF data # <<>>
       THEN <<Line("header", game, day, 0, "", <<>>)>>
            \o [i \in DOMAIN ranked |-> Line("row", game, day, i, ranked[i][1], RowDetail(game, ranked[i][2]))]
       ELSE <<Line("none", game, day, 0, "", <<>>)>>

build_leaderboard_text(store, day) ==
    <<Line("title", "", day, 0, "", <<>>)>>
    \o Section(store, "wordle", day) \o Section(store, "connections", day)
    \o Section(store, "strands", day) \o Section(store, "globle", day)

\* The loops of stats: for game in daily_scores, for day in daily_scores[game], the entry of
\* username if there is one.
RECURSIVE DayEntries(_, _, _)
DayEntries(game, days, username) ==
    IF days = <<>> THEN <<>>
    ELSE (IF Has(Head(days)[2], username)
          THEN <<<<game, Head(days)[1], Get(Head(days)[2], username)>>>>
          ELSE <<>>) \o DayEntries(game, Tail(days), username)

RECURSIVE TotalScores(_, _)
TotalScores(store, username) ==
    IF store = <<>> THEN <<>>
    ELSE DayEntries(Head(store)[1], Head(store)[2], username) \o TotalScores(Tail(store), username)

\* The window of stats: total_scores[-7:]
StatsWindow == 7

LastEntries(total_scores) ==
    IF Len(total_scores) <= StatsWindow THEN total_scores
    ELSE SubSeq(total_scores, Len(total_scores) - StatsWindow + 1, Len(total_scores))

\* f"{entry}": the entry as it is held
EntryText(game, entry) ==
    IF game = "wordle" THEN <<ToString(entry)>>
    ELSE IF game = "connections"
         THEN <<"mistakes", ToString(entry.mistakes), "points", ToString(entry.points), "summary">> \o entry.summary
    ELSE IF game = "strands" THEN <<"score", ToString(entry.score), "summary">> \o entry.summary
    ELSE <<"guesses", ToString(entry.guesses), "summary">> \o entry.summary

stats(store, username) ==
    LET total_scores == TotalScores(store, username)
        shown == LastEntries(total_scores)
    IN IF total_scores = <<>> THEN <<Line("no_stats", "", "", 0, username, <<>>)>>
       ELSE <<Line("stats", "", "", 0, username, <<>>)>>
            \o [i \in DOMAIN shown |->
                    Line("entry", shown[i][1], shown[i][2], 0, username, EntryText(shown[i][1], shown[i][3]))]

\* bot.process_commands: a message that begins with the prefix "!" and a command's name runs
\* the command.  CommandWords: the command's name and arguments, <<>> for no command.
CommandWords(text) ==
    IF StartsWith(text, <<"!">>) /\ Len(text) > 1 /\ text[2] \notin Whitespace THEN Split(Tail(text)) ELSE <<>>

\* What the command sends.  members: the display names stats can look up.
process_commands(words, author, members, store, day) ==
       IF words = <<>> THEN <<>>
       ELSE IF words[1] = <<"l", "e", "a", "d", "e", "r", "b", "o", "a", "r", "d">>
            THEN build_leaderboard_text(store, day)
       ELSE IF words[1] = <<"s", "t", "a", "t", "s">>
            THEN IF Len(words) = 1 THEN stats(store, author)
                 ELSE IF Len(words[2]) = 1 /\ words[2][1] \in members THEN stats(store, words[2][1])
                 ELSE <<>>
       ELSE IF words[1] = <<"h", "e", "l", "l", "o">> THEN <<Line("hello", "", "", 0, author, <<>>)>>
       ELSE <<>>

\* ------------------------------------------------------------------ the handler

\* on_message for the message `text` of `author`, the save ending as `io`.  classified is
\* Classify(Strip(text)) and words is CommandWords(text): the callers pass them from the
\* tables ClassifyTable and CommandTable, computed once per text.
handle(classified, words, author, members, io) ==
    IF author = BotUser
    THEN /\ updated' = FALSE
         /\ escaped' = FALSE
         /\ processed' = FALSE
         /\ sent' = <<>>
         /\ UNCHANGED <<daily_scores, file>>
    ELSE /\ daily_scores' = IF classified.write
                            THEN Write(daily_scores, classified.game, IsoFormat(today), author, classified.record)
                            ELSE daily_scores
         /\ updated' = classified.write
         /\ file' = IF updated' THEN save_scores(daily_scores', file, io).file ELSE file
         /\ escaped' = (updated' /\ save_scores(daily_scores', file, io).raised)
         /\ processed' = ~escaped'
         /\ sent' = IF escaped' THEN <<>>
                    ELSE process_commands(words, author, members, daily_scores', IsoFormat(today))

\* The number of records in the table.
RECURSIVE CountEntries(_)
CountEntries(days) == IF days = <<>> THEN 0 ELSE Len(Head(days)[2]) + CountEntries(Tail(days))

RECURSIVE CountRecords(_)
CountRecords(store) == IF store = <<>> THEN 0 ELSE CountEntries(Head(store)[2]) + CountRecords(Tail(store))

\* The message writes within the bound: it overwrites a record, or the table has room.
Fits(classified, author, max) ==
    (author # BotUser /\ classified.write) =>
        \/ CountRecords(daily_scores) < max
        \/ Has(GetOr(Get(daily_scores, classified.game), IsoFormat(today), <<>>), author)

\* ------------------------------------------------------------------ texts

PuzzleNo == <<"#", "1">>

\* n times the symbol c
Row(c, n) == [i \in 1..n |-> c]

\* The lines joined by line breaks.
RECURSIVE Lines(_)
Lines(ls) ==
    IF ls = <<>> THEN <<>>
    ELSE IF Len(ls) = 1 THEN ls[1]
    ELSE ls[1] \o <<NL>> \o Lines(Tail(ls))

\* The sequences over S of length lo..hi.
SeqsOf(S, lo, hi) == UNION {[1..n -> S] : n \in lo..hi}

\* ------------------------------------------------------------------ the decoders run on their own

MaxGridLines == 5

\* The rows a pasted Connections result is made of: a solved group of each color, a
\* mixed (wrong) guess, and a row pasted with a leading blank.
ConnectionsRows ==
    {Row(SqYellow, 4), Row(SqGreen, 4), Row(SqBlue, 4), Row(SqPurple, 4),
     <<SqGreen, SqPurple, SqGreen, SqGreen>>, <<SP>> \o Row(SqPurple, 4)}

ConnectionsTexts ==
    {Lines(<<ConnectionsLabel, <<"P", "u", "z", "z", "l", "e", SP>> \o PuzzleNo>> \o rows) :
        rows \in SeqsOf(ConnectionsRows, 1, MaxGridLines)}

Idle ==
    /\ daily_scores = EmptyStore
    /\ file = NoFile
    /\ today = 1
    /\ updated = FALSE
    /\ escaped = FALSE
    /\ processed = FALSE
    /\ sent = <<>>

InitConnections == Idle /\ content \in ConnectionsTexts /\ result = <<>>

RunConnections ==
    /\ result = <<>>
    /\ result' = <<parse_connections_result(content)>>
    /\ UNCHANGED <<daily_scores, file, today, updated, escaped, processed, sent, content>>

NextConnections == RunConnections

SpecConnections == InitConnections /\ [][NextConnections]_vars

\* color_order of a text, as parse_connections_result builds it
ColorOrderOf(text) == ColorOrder(GridLines(SplitLines(text), ConnectionsPalette), <<>>)

\* The orders in which the members of S can be solved.
OrdersOf(S) == {q \in [1..Cardinality(S) -> S] : \A i, j \in 1..Cardinality(S) : q[i] = q[j] => i = j}

\* A result whose color_order is q: one row per entry, a blank-led row for a blank.
TextOfOrder(q) ==
    Lines(<<ConnectionsLabel>> \o [i \in DOMAIN q |-> IF q[i] = SP THEN <<SP>> \o Row(SqPurple, 4) ELSE Row(q[i], 4)])

\* The results with the same entries in color_order as co and purple solved last.
PurpleLast(co) == {q \in OrdersOf(Range(co)) : q[Len(q)] = SqPurple /\ q # co}

PurpleFirst(co) == {q \in OrdersOf(Range(co)) : q[1] = SqPurple /\ q # co}

MaxStrandsLines == 3

\* The lines a pasted Strands result is made of: rows of found words, rows with the spangram
\* or a hint, short rows, a row pasted with a leading blank, and a line of plain text.
StrandsRows ==
    {Row(DotBlue, 4), <<DotYellow, DotBlue, DotBlue, DotBlue>>, <<Bulb, DotBlue, DotBlue, DotBlue>>,
     <<DotBlue, DotBlue, DotBlue, DotYellow>>, <<Bulb>>, <<DotYellow>>, <<DotBlue>>,
     <<SP, DotBlue, DotBlue>>, <<"x">>}

StrandsTexts ==
    {Lines(<<StrandsLabel \o <<SP>> \o PuzzleNo>> \o rows) : rows \in SeqsOf(StrandsRows, 1, MaxStrandsLines)}

InitStrands == Idle /\ content \in StrandsTexts /\ result = <<>>

RunStrands ==
    /\ result = <<>>
    /\ result' = <<parse_strands_result(content)>>
    /\ UNCHANGED <<daily_scores, file, today, updated, escaped, processed, sent, content>>

NextStrands == RunStrands

SpecStrands == InitStrands /\ [][NextStrands]_vars

\* C10: for a text with at least one grid line, S the concatenation of its grid lines, L its
\* length and p the 0-based position of the first spangram marker in S, the score is
\* (correct) + 5 * (markers) - 2 * (hints) + bonus, bonus 3 if 3p < L, else 1 if 3p < 2L, else 0
\* (0 with no marker); the summary says early exactly when the bonus is 3, mid exactly when it
\* is 1, late exactly when there is a marker and the bonus is 0.
C10_ScoreAndBand ==
    (result # <<>> /\ GridLines(SplitLines(content), StrandsPalette) # <<>>) =>
        LET S == Join(GridLines(SplitLines(content), StrandsPalette))
            L == Len(S)
            marks == {i \in 1..L : S[i] = DotYellow}
            p == (CHOOSE i \in marks : \A j \in marks : i <= j) - 1
            bonus == IF marks = {} THEN 0 ELSE IF 3 * p < L THEN 3 ELSE IF 3 * p < 2 * L THEN 1 ELSE 0
            says(band) == \E i \in DOMAIN result[1].summary : result[1].summary[i] = band
        IN /\ result[1].score = Cardinality({i \in 1..L : S[i] = DotBlue}) + 5 * Cardinality(marks)
                                    - 2 * Cardinality({i \in 1..L : S[i] = Bulb}) + bonus
           /\ says(", spangram early") <=> bonus = 3
           /\ says(", spangram mid") <=> bonus = 1
           /\ says(", spangram late") <=> (marks # {} /\ bonus = 0)

\* The example: 10 correct, 1 hint, the spangram at the very first position, decoded to 16.
C10_Witness ==
    /\ result # <<>>
    /\ Join(GridLines(SplitLines(content), StrandsPalette))
        = <<DotYellow, DotBlue, DotBlue, DotBlue>> \o Row(DotBlue, 4) \o <<Bulb, DotBlue, DotBlue, DotBlue>>
    /\ result[1].score = 16
    /\ result[1].summary = <<"10 correct, 1 hint", ", spangram early">>

\* ------------------------------------------------------------------ the bot

MaxDay == 2
MaxRecords == 2

Players == {"A", "B"}

\* The members of the leaderboard runs, in name order.
BoardPlayers == <<"A", "B", "C">>

Word(n) == WordleLabel \o <<SP>> \o PuzzleNo \o <<SP>> \o n \o <<"/", "6">>

LeaderboardCommand == <<"!", "l", "e", "a", "d", "e", "r", "b", "o", "a", "r", "d">>

StatsCommand == <<"!", "s", "t", "a", "t", "s">>

\* The messages of the channel: results of the four games, good and malformed, chat, commands.
WordleMessages ==
    {Word(<<"3">>), Word(<<"1">>) \o <<NL>> \o Row(SqGreen, 5), Word(<<"X">>),
     Word(<<"-", "3">>), WordleLabel \o <<SP, "3", "/", "6">>}

ConnectionsMessages ==
    {Lines(<<Lower(ConnectionsLabel), Row(SqPurple, 4), Row(SqBlue, 4), Row(SqGreen, 4), Row(SqYellow, 4)>>)}

StrandsMessages ==
    {Lines(<<StrandsLabel, <<DotYellow, DotBlue, DotBlue, DotBlue>>, <<Bulb, DotBlue, DotBlue, DotBlue>>>>),
     Lines(<<StrandsLabel, <<Bulb>>>>),
     Lines(<<StrandsLabel, <<"h", "i">>>>)}

GlobleMessages ==
    {<<SP, GlobeEurope, SP, SqGreen, "=", "0", NL>>,
     <<GlobeAsia>>,
     Lines(<<<<GlobeAmericas>>, <<SqGreen, SP, "3">>>>),
     LeaderboardCommand \o <<SP, GlobeAsia, SP, SqGreen, "=", "2">>}

OtherMessages == {<<"h", "i">>}

Messages == WordleMessages \cup ConnectionsMessages \cup StrandsMessages \cup GlobleMessages \cup OtherMessages

\* The messages of the leaderboard runs: Wordle in 2, 1 and 4 guesses; Connections without
\* mistakes for 7 and for 3 points and with one mistake; Strands for 9 and for 4 points; Globle
\* in 3 and in 5 guesses; and the command.
BoardMessages ==
    {Word(<<"2">>), Word(<<"1">>), Word(<<"4">>),
     Lines(<<ConnectionsLabel, Row(SqPurple, 4), Row(SqBlue, 4), Row(SqGreen, 4), Row(SqYellow, 4)>>),
     Lines(<<ConnectionsLabel, Row(SqYellow, 4), Row(SqGreen, 4), Row(SqBlue, 4), Row(SqPurple, 4)>>),
     Lines(<<ConnectionsLabel, Row(SqPurple, 4), <<SqBlue, SqBlue, SqGreen, SqBlue>>, Row(SqBlue, 4),
             Row(SqGreen, 4), Row(SqYellow, 4)>>),
     Lines(<<StrandsLabel, <<DotYellow, DotBlue>>>>),
     Lines(<<StrandsLabel, <<DotBlue, DotBlue, DotBlue, DotBlue>>>>),
     Lines(<<<<GlobeAmericas>>, <<SqGreen, SP, "=", SP, "3">>>>),
     Lines(<<<<GlobeEurope>>, <<SqGreen, "=", "5">>>>),
     LeaderboardCommand}

\* Who posts what in the leaderboard runs: all three play Wordle, A and B the other games.
BoardPosters(text) ==
    IF StartsWith(text, WordleLabel) \/ text = LeaderboardCommand THEN Range(BoardPlayers) ELSE {"A", "B"}

\* The messages of the stats runs: one result of each game and the command.
StatsMessages ==
    {Word(<<"3">>),
     Lines(<<ConnectionsLabel, Row(SqPurple, 4), Row(SqBlue, 4), Row(SqGreen, 4), Row(SqYellow, 4)>>),
     Lines(<<StrandsLabel, <<DotYellow, DotBlue, DotBlue, DotBlue>>>>),
     Lines(<<<<GlobeAmericas>>, <<SqGreen, SP, "=", SP, "3">>>>),
     StatsCommand, StatsCommand \o <<SP, "B">>, StatsCommand \o <<SP, "Z">>, <<"!", "h", "e", "l", "l", "o">>}

\* The messages of the runs that follow single writes: a Wordle result, a Wordle result that
\* also holds a Globle line, one result of each other game, a Globle result behind the
\* leaderboard command, a malformed Wordle line and chat.
PostMessages ==
    {Word(<<"3">>),
     Lines(<<Word(<<"1">>), <<GlobeEurope, SP, SqGreen, "=", "5">>>>),
     Lines(<<Lower(ConnectionsLabel), Row(SqPurple, 4), Row(SqBlue, 4), Row(SqGreen, 4), Row(SqYellow, 4)>>),
     Lines(<<StrandsLabel, <<DotYellow, DotBlue, DotBlue, DotBlue>>>>),
     Lines(<<<<GlobeAmericas>>, <<SqGreen, SP, "=", SP, "3">>>>),
     LeaderboardCommand \o <<SP, GlobeAsia, SP, SqGreen, "=", "2">>,
     Word(<<"X">>), <<"h", "i">>}

AllMessages == Messages \cup BoardMessages \cup StatsMessages \cup PostMessages

Init ==
    /\ daily_scores = EmptyStore
    /\ file = NoFile
    /\ today = 1
    /\ updated = FALSE
    /\ escaped = FALSE
    /\ processed = FALSE
    /\ sent = <<>>
    /\ content = <<>>
    /\ result = <<>>

\* Classify(Strip(text)) and CommandWords(text) of every message, computed once.
ClassifyTable == [text \in AllMessages |-> Classify(Strip(text))]

CommandTable == [text \in AllMessages |-> CommandWords(text)]

on_message(text, author, members, io) == handle(ClassifyTable[text], CommandTable[text], author, members, io)

\* The save has an outcome only when the handler saves.
Saves(text, author) == IF author # BotUser /\ ClassifyTable[text].write THEN SaveOutcomes ELSE {"ok"}

Receive(text, author, io) ==
    /\ Fits(ClassifyTable[text], author, MaxRecords)
    /\ on_message(text, author, Players, io)
    /\ UNCHANGED <<today, content, result>>

\* date.today() moves on to the next day.
NextDay ==
    /\ today < MaxDay
    /\ today' = today + 1
    /\ UNCHANGED <<daily_scores, file, updated, escaped, processed, sent, content, result>>

Next ==
    \/ \E text \in Messages, author \in Players \cup {BotUser} : \E io \in Saves(text, author) : Receive(text, author, io)
    \/ NextDay

Spec == Init /\ [][Next]_vars

\* ------------------------------------------------------------------ the runs of single writes

MaxPosts == 2

\* The saves of these runs succeed.
ReceivePost(text, author) ==
    /\ Fits(ClassifyTable[text], author, MaxPosts)
    /\ on_message(text, author, Players, "ok")
    /\ UNCHANGED <<today, content, result>>

NextPosts ==
    \/ \E text \in PostMessages, author \in Players : ReceivePost(text, author)
    \/ NextDay

SpecPosts == Init /\ [][NextPosts]_vars

\* ------------------------------------------------------------------ the leaderboard runs

BoardMaxRecords == 3

ReceiveBoard(text, author) ==
    /\ Fits(ClassifyTable[text], author, BoardMaxRecords)
    /\ on_message(text, author, Range(BoardPlayers), "ok")
    /\ UNCHANGED <<today, content, result>>

NextBoard ==
    \/ \E text \in BoardMessages : \E author \in BoardPosters(text) : ReceiveBoard(text, author)
    \/ NextDay

SpecBoard == Init /\ [][NextBoard]_vars

\* ------------------------------------------------------------------ the stats runs

ReceiveStats(text) ==
    /\ on_message(text, "A", Players, "ok")
    /\ UNCHANGED <<today, content, result>>

NextStats ==
    \/ \E text \in StatsMessages : ReceiveStats(text)
    \/ NextDay

SpecStats == Init /\ [][NextStats]_vars

\* ------------------------------------------------------------------ startup

\* Records of each game, for the files a run can have left.
SampleRecord(game) ==
    IF game = "wordle" THEN 3
    ELSE IF game = "connections" THEN parse_connections_result(ConnectionsLabel \o <<NL>> \o Row(SqPurple, 4))
    ELSE IF game = "strands" THEN parse_strands_result(StrandsLabel \o <<NL>> \o Row(DotBlue, 4))
    ELSE [guesses |-> 3, summary |-> GlobleSummary(3)]

\* A game's table with player A's record on the days of `days`.
SampleTable(game, days) ==
    LET on == SelectSeq(<<1, 2>>, LAMBDA d : d \in days)
    IN [i \in DOMAIN on |-> <<IsoFormat(on[i]), <<<<"A", SampleRecord(game)>>>>>>]

SampleStores ==
    {[i \in DOMAIN Games |-> <<Games[i], SampleTable(Games[i], pick[i])>>] : pick \in [DOMAIN Games -> SUBSET {1, 2}]}

\* scores.json at startup: missing, unreadable, not JSON, a JSON object that lacks games,
\* or a table an earlier run saved.
StartupFiles ==
    {NoFile, UnreadableFile, InvalidFile, JsonFile(<<>>), JsonFile(<<<<"wordle", <<>>>>>>)}
    \cup {JsonFile(store) : store \in SampleStores}

InitStartup ==
    /\ daily_scores = EmptyStore
    /\ file \in StartupFiles
    /\ today = 1
    /\ updated = FALSE
    /\ escaped = FALSE
    /\ processed = FALSE
    /\ sent = <<>>
    /\ content = <<>>
    /\ result = <<>>

\* daily_scores = load_scores(): an exception ends the start.
Startup ==
    /\ result = <<>>
    /\ result' = <<load_scores(file)>>
    /\ escaped' = result'[1].raised
    /\ daily_scores' = IF result'[1].raised THEN daily_scores ELSE result'[1].value
    /\ UNCHANGED <<file, today, updated, processed, sent, content>>

NextStartup == Startup

SpecStartup == InitStartup /\ [][NextStartup]_vars

\* ------------------------------------------------------------------ the table as a mapping

\* Every value filed under key k.
ValuesAt(od, k) ==
    LET hits == SelectSeq(od, LAMBDA e : e[1] = k)
    IN [i \in DOMAIN hits |-> hits[i][2]]

\* Every record the table holds for (game, day, player): none, or one unless a key repeats.
Records(store, game, day, player) ==
    LET tables == ValuesAt(store, game)
        days == Join([i \in DOMAIN tables |-> ValuesAt(tables[i], day)])
    IN Join([i \in DOMAIN days |-> ValuesAt(days[i], player)])

IsoDays == {IsoFormat(d) : d \in 1..MaxDay}

\* The applicability predicates of the four games, on the stripped text.
Applicable(game, c) ==
    IF game = "wordle" THEN StartsWith(c, WordleLabel)
    ELSE IF game = "connections" THEN StartsWith(Lower(c), Lower(ConnectionsLabel))
    ELSE IF game = "strands" THEN StartsWith(Lower(c), Lower(StrandsLabel))
    ELSE \E i \in DOMAIN c : c[i] \in Globes

\* The first game, in the order Wordle, Connections, Strands, Globle, whose predicate holds.
FirstMatch(c) ==
    LET hits == {i \in DOMAIN Games : Applicable(Games[i], c)}
    IN IF hits = {} THEN "" ELSE Games[CHOOSE i \in hits : \A j \in hits : i <= j]

FirstMatchTable == [text \in AllMessages |-> FirstMatch(Strip(text))]

\* The text matches a decoder that cannot extract a result: a Wordle first line without an
\* integer before the "/", a Strands text without grid lines, a Globle text without a line
\* holding the green square or without "= digits" after it.
CannotExtract(game, c) ==
    IF game = "wordle"
    THEN LET parts == Split(SplitLines(c)[1])
         IN ~(Len(parts) >= 3 /\ "/" \in Range(parts[3]) /\ ParseInt(BeforeSlash(parts[3])).ok)
    ELSE IF game = "strands" THEN \A i \in DOMAIN SplitLines(c) : ~IsGridLine(SplitLines(c)[i], StrandsPalette)
    ELSE IF game = "globle"
         THEN \A i \in DOMAIN SplitLines(c) :
                SqGreen \in Range(SplitLines(c)[i]) =>
                    \A j \in DOMAIN SplitLines(c)[i] : GuessMatchAt(SplitLines(c)[i], j) = <<>>
    ELSE FALSE

UndecodableTable ==
    [text \in Messages |-> FirstMatchTable[text] = "" \/ CannotExtract(FirstMatchTable[text], Strip(text))]

\* ------------------------------------------------------------------ claims on the handler

\* C1 as claimed: a message that matches no decoder, or whose decoder cannot extract a result,
\* leaves the table and the file as they were.
C1_UndecodableWritesNothing ==
    [][\A text \in Messages, author \in Players :
        (UndecodableTable[text] /\ \E io \in SaveOutcomes : Receive(text, author, io))
            => (daily_scores' = daily_scores /\ file' = file)]_vars

\* C2: a successfully decoded message of player p on day d replaces exactly the entry
\* (kind, d, p), kind the first matching game in the order Wordle, Connections, Strands,
\* Globle, by the decoded record; every other (game, date, player) entry is as before; the key
\* holds one record; and posting the same result again leaves the same table.
C2_OneEntryReplaced ==
    [][\A text \in PostMessages, author \in Players :
        (updated' /\ ClassifyTable[text].write /\ ReceivePost(text, author))
            => /\ Records(daily_scores', FirstMatchTable[text], IsoFormat(today), author)
                    = <<ClassifyTable[text].record>>
               /\ \A i \in DOMAIN Games, day \in IsoDays, player \in Players :
                    (<<Games[i], day, player>> # <<FirstMatchTable[text], IsoFormat(today), author>>)
                        => Records(daily_scores', Games[i], day, player) = Records(daily_scores, Games[i], day, player)
               /\ Write(daily_scores', FirstMatchTable[text], IsoFormat(today), author, ClassifyTable[text].record)
                    = daily_scores']_vars

\* A handler has written a record into a table that holds another player's record of the
\* same game and day.
C2_Witness ==
    /\ updated
    /\ ~escaped
    /\ \E day \in IsoDays :
        /\ Records(daily_scores, "wordle", day, "A") # <<>>
        /\ Records(daily_scores, "wordle", day, "B") # <<>>

\* C3 as claimed: every stored number is non-negative, Wordle attempts are within 1..6 and
\* Globle guesses are at least 1.
C3_NumbersInRange ==
    \A day \in IsoDays, player \in Players :
        /\ \A i \in DOMAIN Records(daily_scores, "wordle", day, player) :
                Records(daily_scores, "wordle", day, player)[i] \in 1..6
        /\ \A i \in DOMAIN Records(daily_scores, "connections", day, player) :
                /\ Records(daily_scores, "connections", day, player)[i].mistakes >= 0
                /\ Records(daily_scores, "connections", day, player)[i].points >= 0
        /\ \A i \in DOMAIN Records(daily_scores, "strands", day, player) :
                Records(daily_scores, "strands", day, player)[i].score >= 0
        /\ \A i \in DOMAIN Records(daily_scores, "globle", day, player) :
                Records(daily_scores, "globle", day, player)[i].guesses >= 1

\* C8 as claimed: a handler that decoded and wrote a record ends without an exception leaving
\* it, whatever the save did, and reaches the command processing.
C8_SaveFailureContained == updated => (~escaped /\ processed)

\* ------------------------------------------------------------------ claims on the leaderboard

IsBoard(s) == s # <<>> /\ s[1].kind = "title"

RowsOf(s, game) == SelectSeq(s, LAMBDA l : l.kind = "row" /\ l.game = game)

\* The players with an entry for the game and day.
Entrants(store, game, day) == {p \in Range(BoardPlayers) : Records(store, game, day, p) # <<>>}

\* The comparators as the specification words them: record a ranks strictly above record b.
Better(game, a, b) ==
    IF game = "wordle" THEN a < b
    ELSE IF game = "connections" THEN a.mistakes < b.mistakes \/ (a.mistakes = b.mistakes /\ a.points > b.points)
    ELSE IF game = "strands" THEN a.score > b.score
    ELSE a.guesses < b.guesses

Tied(game, a, b) == ~Better(game, a, b) /\ ~Better(game, b, a)

\* C4: the report has one section per game in the order Wordle, Connections, Strands, Globle;
\* a game without entries for the date has its "no scores today" line and no rows; a game with
\* entries has one row per player with an entry, each player once, numbered 1..n, in the game's
\* comparator order.
C4_RankedSections ==
    IsBoard(sent) =>
        LET day == sent[1].day
            heads == SelectSeq(sent, LAMBDA l : l.kind \in {"header", "none"})
            body == Tail(sent)
        IN /\ [i \in DOMAIN heads |-> heads[i].game] = Games
           /\ \A i \in DOMAIN body : \A j \in DOMAIN body :
                (i < j /\ body[i].game = body[j].game) =>
                    /\ body[j].kind = "row"
                    /\ \A k \in i..j : body[k].game = body[i].game
           /\ \A g \in DOMAIN Games :
                LET rows == RowsOf(sent, Games[g])
                    in == Entrants(daily_scores, Games[g], day)
                    rec(name) == Records(daily_scores, Games[g], day, name)[1]
                IN /\ (in = {}) <=> (heads[g].kind = "none")
                   /\ Len(rows) = Cardinality(in)
                   /\ {rows[i].name : i \in DOMAIN rows} = in
                   /\ \A i \in DOMAIN rows : rows[i].pos = i
                   /\ \A i \in DOMAIN rows : \A j \in DOMAIN rows :
                        i < j => ~Better(Games[g], rec(rows[j].name), rec(rows[i].name))

\* The example: A in 2, B in 1, C in 4 are listed B, A, C.
C4_Witness ==
    /\ IsBoard(sent)
    /\ [i \in DOMAIN RowsOf(sent, "wordle") |-> RowsOf(sent, "wordle")[i].name] = <<"B", "A", "C">>
    /\ Records(daily_scores, "wordle", sent[1].day, "A") = <<2>>
    /\ Records(daily_scores, "wordle", sent[1].day, "B") = <<1>>
    /\ Records(daily_scores, "wordle", sent[1].day, "C") = <<4>>

\* The same mapping with each day's players entered in name order.
CanonicalDay(od) ==
    LET names == SelectSeq(BoardPlayers, LAMBDA p : Has(od, p))
    IN [i \in DOMAIN names |-> <<names[i], Get(od, names[i])>>]

Canonical(store) ==
    [i \in DOMAIN store |->
        <<store[i][1], [j \in DOMAIN store[i][2] |-> <<store[i][2][j][1], CanonicalDay(store[i][2][j][2])>>]>>]

RowNames(s) ==
    LET rows == SelectSeq(s, LAMBDA l : l.kind = "row")
    IN [i \in DOMAIN rows |-> <<rows[i].game, rows[i].name>>]

PlaceOf(store, game, day, name) == IndexOf(Keys(ValuesAt(ValuesAt(store, game)[1], day)[1]), name)

NoTies(store, day) ==
    \A g \in DOMAIN Games : \A p \in Entrants(store, Games[g], day) : \A q \in Entrants(store, Games[g], day) :
        p # q => ~Tied(Games[g], Records(store, Games[g], day, p)[1], Records(store, Games[g], day, q)[1])

DateThenGame ==
    [k \in 1..(MaxDay * Len(Games)) |-> <<Games[((k - 1) % Len(Games)) + 1], IsoFormat(((k - 1) \div Len(Games)) + 1)>>]

\* C6 as claimed: stats lists the player's entries in date-then-game order, the last 7 of
\* them (all when there are fewer, "no stats found" when there are none).
C6_LastSevenByDate ==
    (sent # <<>> /\ sent[1].kind \in {"stats", "no_stats"}) =>
        LET mine == SelectSeq(DateThenGame, LAMBDA e : Records(daily_scores, e[1], e[2], sent[1].name) # <<>>)
            last == IF Len(mine) <= 7 THEN mine ELSE SubSeq(mine, Len(mine) - 6, Len(mine))
            shown == Tail(sent)
        IN /\ (mine = <<>>) <=> (sent[1].kind = "no_stats")
           /\ [i \in DOMAIN shown |-> <<shown[i].game, shown[i].day>>] = last

\* ------------------------------------------------------------------ claims on startup

\* C7 as claimed: load_scores never raises; it returns a table with all four games, each of
\* them empty when the file is missing, unreadable or not JSON.
C7_LoadNeverRaises ==
    result # <<>> =>
        /\ ~result[1].raised
        /\ \A g \in DOMAIN Games : ValuesAt(result[1].value, Games[g]) # <<>>
        /\ file.kind # "json" => \A g \in DOMAIN Games : ValuesAt(result[1].value, Games[g]) = <<<<>>>>

====
